---- MODULE Spec2Model ----
(***************************************************************************)
(* rendergit-web: one request handled by api/render.js (handler,           *)
(* generateHtmlFromRepo, tryFetchGithubZip, parseGithub) on top of         *)
(* repo_to_single_page.js (decideFile, collect_files, build_html,          *)
(* generate_tree_fallback, generate_cxml_text).                            *)
(*                                                                         *)
(* JavaScript strings that the code inspects character by character        *)
(* (paths, names, URLs) are sequences of one-character strings; the empty  *)
(* sequence stands for every falsy string value (undefined, null, "").     *)
(***************************************************************************)
EXTENDS Integers, Sequences, FiniteSets, TLC

\* ------------------------------------------------------------------------
\* Bounds of the model
\* ------------------------------------------------------------------------

\* At most this many file-system / transform failures are injected per run.
MaxFaults == 2

\* ------------------------------------------------------------------------
\* Program constants
\* ------------------------------------------------------------------------

MAX_DEFAULT_BYTES == 50 * 1024

BINARY_EXTENSIONS ==
    { <<".", "p", "n", "g">>,
      <<".", "j", "p", "g">>,
      <<".", "j", "p", "e", "g">>,
      <<".", "g", "i", "f">>,
      <<".", "w", "e", "b", "p">>,
      <<".", "b", "m", "p">>,
      <<".", "s", "v", "g">>,
      <<".", "i", "c", "o">>,
      <<".", "p", "d", "f">>,
      <<".", "z", "i", "p">>,
      <<".", "t", "a", "r">>,
      <<".", "g", "z">>,
      <<".", "b", "z", "2">>,
      <<".", "x", "z">>,
      <<".", "7", "z">>,
      <<".", "r", "a", "r">>,
      <<".", "m", "p", "3">>,
      <<".", "m", "p", "4">>,
      <<".", "m", "o", "v">>,
      <<".", "a", "v", "i">>,
      <<".", "m", "k", "v">>,
      <<".", "w", "a", "v">>,
      <<".", "o", "g", "g">>,
      <<".", "f", "l", "a", "c">>,
      <<".", "t", "t", "f">>,
      <<".", "o", "t", "f">>,
      <<".", "e", "o", "t">>,
      <<".", "w", "o", "f", "f">>,
      <<".", "w", "o", "f", "f", "2">>,
      <<".", "s", "o">>,
      <<".", "d", "l", "l">>,
      <<".", "d", "y", "l", "i", "b">>,
      <<".", "c", "l", "a", "s", "s">>,
      <<".", "j", "a", "r">>,
      <<".", "e", "x", "e">>,
      <<".", "b", "i", "n">> }

MARKDOWN_EXTENSIONS ==
    { <<".", "m", "d">>,
      <<".", "m", "a", "r", "k", "d", "o", "w", "n">>,
      <<".", "m", "d", "o", "w", "n">>,
      <<".", "m", "k", "d">>,
      <<".", "m", "k", "d", "n">> }

\* ------------------------------------------------------------------------
\* JavaScript string primitives
\* ------------------------------------------------------------------------

UpperCase == <<"A", "B", "C", "D", "E", "F", "G", "H", "I", "J", "K", "L", "M",
               "N", "O", "P", "Q", "R", "S", "T", "U", "V", "W", "X", "Y", "Z">>
LowerCase == <<"a", "b", "c", "d", "e", "f", "g", "h", "i", "j", "k", "l", "m",
               "n", "o", "p", "q", "r", "s", "t", "u", "v", "w", "x", "y", "z">>
Digits == <<"0", "1", "2", "3", "4", "5", "6", "7", "8", "9">>

\* The position of every character of an alphabet, as a lookup table.
PosMap(alphabet) ==
    [c \in { alphabet[k] : k \in 1..Len(alphabet) } |->
        CHOOSE k \in 1..Len(alphabet) : alphabet[k] = c]

UpperPos == PosMap(UpperCase)
LowerPos == PosMap(LowerCase)
DigitPos == PosMap(Digits)

IsUpper(c) == c \in DOMAIN UpperPos
IsLower(c) == c \in DOMAIN LowerPos
IsDigit(c) == c \in DOMAIN DigitPos

SetMin(S) == CHOOSE x \in S : \A y \in S : x <= y
SetMax(S) == CHOOSE x \in S : \A y \in S : x >= y

\* String.prototype.indexOf, 1-based; 0 when sub does not occur.
IndexOf(s, sub) ==
    LET hits == { i \in 1..(Len(s) - Len(sub) + 1) :
                    SubSeq(s, i, i + Len(sub) - 1) = sub }
    IN IF hits = {} THEN 0 ELSE SetMin(hits)

\* String.prototype.includes
Includes(s, sub) == IndexOf(s, sub) # 0

\* String.prototype.startsWith
StartsWith(s, pre) ==
    Len(s) >= Len(pre) /\ SubSeq(s, 1, Len(pre)) = pre

\* String.prototype.endsWith
EndsWith(s, suf) ==
    Len(s) >= Len(suf) /\ SubSeq(s, Len(s) - Len(suf) + 1, Len(s)) = suf

\* String.prototype.lastIndexOf for one character, 1-based; 0 when absent.
LastIndexOfChar(s, c) ==
    LET hits == { i \in 1..Len(s) : s[i] = c }
    IN IF hits = {} THEN 0 ELSE SetMax(hits)

\* String.prototype.toLowerCase
toLowerCase(s) ==
    [i \in 1..Len(s) |->
        IF IsUpper(s[i]) THEN LowerCase[UpperPos[s[i]]] ELSE s[i]]

\* String.prototype.split on a one-character separator.
RECURSIVE Split(_, _)
Split(s, c) ==
    LET hits == { i \in 1..Len(s) : s[i] = c }
    IN IF hits = {} THEN <<s>>
       ELSE LET i == SetMin(hits)
            IN <<SubSeq(s, 1, i - 1)>> \o Split(SubSeq(s, i + 1, Len(s)), c)

\* Array.prototype.filter(Boolean) on an array of strings.
FilterBoolean(parts) == SelectSeq(parts, LAMBDA p : p # <<>>)

\* str.replace(/\\/g, '/')
ReplaceBackslashes(s) ==
    [i \in 1..Len(s) |-> IF s[i] = "\\" THEN "/" ELSE s[i]]

\* ------------------------------------------------------------------------
\* path module (POSIX)
\* ------------------------------------------------------------------------

\* path.join(dir, name) for a directory and one entry name.
PathJoin(dir, name) == dir \o <<"/">> \o name

\* path.basename(p)
PathBasename(p) == SubSeq(p, LastIndexOfChar(p, "/") + 1, Len(p))

\* path.extname(p): from the last "." of the basename, "" when there is no
\* "." or when the only "." is the first character of the basename.
PathExtname(p) ==
    LET b == PathBasename(p)
        i == LastIndexOfChar(b, ".")
    IN IF i <= 1 THEN <<>> ELSE SubSeq(b, i, Len(b))

\* path.relative(root, p) for p equal to root or below it.
PathRelative(root, p) ==
    IF p = root THEN <<>>
    ELSE IF StartsWith(p, root \o <<"/">>)
         THEN SubSeq(p, Len(root) + 2, Len(p))
         ELSE p

\* ------------------------------------------------------------------------
\* File classification (repo_to_single_page.js)
\* ------------------------------------------------------------------------

looksBinary(filePath) ==
    LET ext == toLowerCase(PathExtname(filePath))
    IN ext \in BINARY_EXTENSIONS

\* stat is the outcome of fs.stat: [ok |-> TRUE, size |-> n] or [ok |-> FALSE].
decideFileSizeFirst(filePath, repoRoot, maxBytes, stat) ==
    LET rel  == ReplaceBackslashes(PathRelative(repoRoot, filePath))
        size == IF stat.ok THEN stat.size ELSE 0
        rec(inc, why) == [path |-> filePath, rel |-> rel, size |-> size,
                          decision |-> [include |-> inc, reason |-> why]]
    IN IF size > maxBytes
       THEN rec(FALSE, "too_large")
       ELSE IF Includes(rel, <<"/", ".", "g", "i", "t", "/">>)
               \/ StartsWith(rel, <<".", "g", "i", "t", "/">>)
            THEN rec(FALSE, "ignored")
            ELSE IF looksBinary(filePath)
                 THEN rec(FALSE, "binary")
                 ELSE rec(TRUE, "ok")

decideFile(filePath, repoRoot, maxBytes, stat) ==
    LET rel  == ReplaceBackslashes(PathRelative(repoRoot, filePath))
        size == IF stat.ok THEN stat.size ELSE 0
        rec(inc, why) == [path |-> filePath, rel |-> rel, size |-> size,
                          decision |-> [include |-> inc, reason |-> why]]
    IN IF Includes(rel, <<"/", ".", "g", "i", "t", "/">>)
          \/ StartsWith(rel, <<".", "g", "i", "t", "/">>)
       THEN rec(FALSE, "ignored")
       ELSE IF size > maxBytes
            THEN rec(FALSE, "too_large")
            ELSE IF looksBinary(filePath)
                 THEN rec(FALSE, "binary")
                 ELSE rec(TRUE, "ok")

\* str.replace(/[^a-zA-Z0-9\-_]/g, '-')
slugify(str) ==
    [i \in 1..Len(str) |->
        IF IsUpper(str[i]) \/ IsLower(str[i]) \/ IsDigit(str[i])
           \/ str[i] = "-" \/ str[i] = "_"
        THEN str[i] ELSE "-"]

\* ------------------------------------------------------------------------
\* Ordering of directory entries in generate_tree_fallback
\* ------------------------------------------------------------------------

\* Punctuation the model's names use, in collation order.
Punctuation == <<"_", "-", ".">>
PunctuationPos == PosMap(Punctuation)

\* Primary collation weight of a character: punctuation, then digits, then
\* letters regardless of case.
PrimaryWeight(c) ==
    IF IsLower(c) THEN 100 + LowerPos[c]
    ELSE IF IsUpper(c) THEN 100 + UpperPos[c]
    ELSE IF IsDigit(c) THEN 50 + DigitPos[c]
    ELSE IF c \in DOMAIN PunctuationPos THEN PunctuationPos[c]
    ELSE 0

\* Tertiary weight: lower case sorts before upper case.
TertiaryWeight(c) == IF IsUpper(c) THEN 1 ELSE 0

\* Three-way lexicographic comparison of two sequences of integers.
LexCompare(k1, k2) ==
    LET n == IF Len(k1) < Len(k2) THEN Len(k1) ELSE Len(k2)
        D == { i \in 1..n : k1[i] # k2[i] }
    IN IF D = {}
       THEN IF Len(k1) < Len(k2) THEN -1
            ELSE IF Len(k1) > Len(k2) THEN 1 ELSE 0
       ELSE IF k1[SetMin(D)] < k2[SetMin(D)] THEN -1 ELSE 1

\* String.prototype.localeCompare (default collation): primary weights
\* decide, case only breaks ties.
localeCompare(a, b) ==
    LET p == LexCompare([i \in 1..Len(a) |-> PrimaryWeight(a[i])],
                        [i \in 1..Len(b) |-> PrimaryWeight(b[i])])
    IN IF p # 0 THEN p
       ELSE LexCompare([i \in 1..Len(a) |-> TertiaryWeight(a[i])],
                       [i \in 1..Len(b) |-> TertiaryWeight(b[i])])

\* Dirent.isDirectory(), isFile(), isSymbolicLink()
isDirectory(e) == e.kind = "dir"
isFile(e) == e.kind = "file"
isSymbolicLink(e) == e.kind = "symlink"

treeCompareFilesFirst(a, b) ==
    IF isDirectory(a) # isDirectory(b)
    THEN IF isDirectory(a) THEN 1 ELSE -1
    ELSE localeCompare(a.name, b.name)

\* The comparator passed to entries.sort.
treeCompare(a, b) ==
    IF isDirectory(a) # isDirectory(b)
    THEN IF isDirectory(a) THEN -1 ELSE 1
    ELSE localeCompare(a.name, b.name)

\* Array.prototype.sort with treeCompare: a stable sort, as insertion of the
\* elements from left to right.
RECURSIVE SortInsert(_, _)
SortInsert(sorted, e) ==
    IF sorted = <<>> THEN <<e>>
    ELSE IF treeCompare(e, Head(sorted)) < 0
         THEN <<e>> \o sorted
         ELSE <<Head(sorted)>> \o SortInsert(Tail(sorted), e)

RECURSIVE SortEntries(_)
SortEntries(entries) ==
    IF entries = <<>> THEN <<>>
    ELSE SortInsert(SortEntries(SubSeq(entries, 1, Len(entries) - 1)),
                    entries[Len(entries)])

\* ------------------------------------------------------------------------
\* URL parsing (api/render.js)
\* ------------------------------------------------------------------------

\* /^https?:\/\//.test(repo_url)
HasHttpScheme(url) ==
    \/ StartsWith(url, <<"h", "t", "t", "p", ":", "/", "/">>)
    \/ StartsWith(url, <<"h", "t", "t", "p", "s", ":", "/", "/">>)

\* new URL(urlStr) succeeds when the string has a scheme made of letters
\* followed by "://"; otherwise the constructor throws.
URLValid(urlStr) ==
    LET i == IndexOf(urlStr, <<":", "/", "/">>)
    IN /\ i > 1
       /\ \A k \in 1..(i - 1) : IsLower(urlStr[k]) \/ IsUpper(urlStr[k])

\* url.pathname: from the first "/" after the host, "/" when there is none.
URLPathname(urlStr) ==
    LET i    == IndexOf(urlStr, <<":", "/", "/">>)
        rest == SubSeq(urlStr, i + 3, Len(urlStr))
        j    == IndexOf(rest, <<"/">>)
    IN IF j = 0 THEN <<"/">> ELSE SubSeq(rest, j, Len(rest))

RefMarkers ==
    { <<"t", "r", "e", "e">>, <<"c", "o", "m", "m", "i", "t">>,
      <<"r", "e", "l", "e", "a", "s", "e", "s">>, <<"t", "a", "g", "s">> }

\* The empty object {} : owner, repo and ref all undefined.
NoGithub == [owner |-> <<>>, repo |-> <<>>, ref |-> <<>>]

parseGithubOnePart(urlStr) ==
    IF ~URLValid(urlStr) THEN NoGithub
    ELSE LET parts == FilterBoolean(Split(URLPathname(urlStr), "/"))
         IN IF Len(parts) < 1 THEN NoGithub
            ELSE LET owner == parts[1]
                     repo  == IF Len(parts) >= 2 THEN parts[2] ELSE parts[1]
                 IN [owner |-> owner, repo |-> repo, ref |-> <<>>]

parseGithub(urlStr) ==
    IF ~URLValid(urlStr) THEN NoGithub
    ELSE LET parts == FilterBoolean(Split(URLPathname(urlStr), "/"))
         IN IF Len(parts) < 2 THEN NoGithub
            ELSE LET owner == parts[1]
                     repo  == IF EndsWith(parts[2], <<".", "g", "i", "t">>)
                              THEN SubSeq(parts[2], 1, Len(parts[2]) - 4)
                              ELSE parts[2]
                     ref   == IF Len(parts) >= 4 /\ parts[3] \in RefMarkers
                              THEN parts[4] ELSE <<>>
                 IN [owner |-> owner, repo |-> repo, ref |-> ref]

\* [ref, 'main', 'master'].filter(Boolean)
ZipCandidates(ref) ==
    FilterBoolean(<<ref, <<"m", "a", "i", "n">>,
                    <<"m", "a", "s", "t", "e", "r">>>>)

\* parseInt(x) || MAX_DEFAULT_BYTES : NaN and 0 both give the default.
ParseMaxBytes(p) ==
    IF p.isNaN \/ p.n = 0 THEN MAX_DEFAULT_BYTES ELSE p.n

\* ------------------------------------------------------------------------
\* Inputs: repository snapshots and requests
\* ------------------------------------------------------------------------

FileEntry(name, size) == [name |-> name, kind |-> "file", size |-> size]
DirEntry(name) == [name |-> name, kind |-> "dir", size |-> 0]
SymlinkEntry(name) == [name |-> name, kind |-> "symlink", size |-> 0]

\* A snapshot maps every directory (path relative to the root, "" for the
\* root) to its entries in the order fs.readdir returns them.

\* m.md  .git/c.png  b.PNG  x.git/y  x.git/.git/h.bin  ln -> ...
TreeClassify ==
    (<<>> :> << FileEntry(<<"m", ".", "m", "d">>, 2),
                DirEntry(<<".", "g", "i", "t">>),
                FileEntry(<<"b", ".", "P", "N", "G">>, 3),
                DirEntry(<<"x", ".", "g", "i", "t">>),
                SymlinkEntry(<<"l", "n">>) >>)
    @@ (<<".", "g", "i", "t">> :>
            << FileEntry(<<"c", ".", "p", "n", "g">>, MAX_DEFAULT_BYTES + 1) >>)
    @@ (<<"x", ".", "g", "i", "t">> :>
            << FileEntry(<<"y">>, MAX_DEFAULT_BYTES + 1),
               DirEntry(<<".", "g", "i", "t">>) >>)
    @@ (<<"x", ".", "g", "i", "t", "/", ".", "g", "i", "t">> :>
            << FileEntry(<<"h", ".", "b", "i", "n">>, 0) >>)

\* a.txt  d/k  B.md  a/p.md  a/q/r.bin
TreeNested ==
    (<<>> :> << FileEntry(<<"a", ".", "t", "x", "t">>, MAX_DEFAULT_BYTES + 1),
                DirEntry(<<"d">>),
                FileEntry(<<"B", ".", "m", "d">>, 3),
                DirEntry(<<"a">>) >>)
    @@ (<<"d">> :> << FileEntry(<<"k">>, 2) >>)
    @@ (<<"a">> :> << FileEntry(<<"p", ".", "m", "d">>, 2),
                      DirEntry(<<"q">>) >>)
    @@ (<<"a", "/", "q">> :> << FileEntry(<<"r", ".", "b", "i", "n">>, 0) >>)

Snapshots == { TreeClassify, TreeNested }

UrlRepo == <<"h", "t", "t", "p", "s", ":", "/", "/", "g", "h", ".", "i", "o",
             "/", "o", "/", "r">>
UrlRepoRef == <<"h", "t", "t", "p", "s", ":", "/", "/", "g", "h", ".", "i", "o",
                "/", "o", "/", "r", ".", "g", "i", "t", "/", "t", "r", "e", "e",
                "/", "d", "e", "v">>
UrlOwnerOnly == <<"h", "t", "t", "p", "s", ":", "/", "/", "g", "h", ".", "i",
                  "o", "/", "o">>
UrlScp == <<"g", "i", "t", "@", "g", "h", ".", "i", "o", ":", "o", "/", "r",
            ".", "g", "i", "t">>

NaN == [isNaN |-> TRUE, n |-> 0]
Num(n) == [isNaN |-> FALSE, n |-> n]

\* The parameters a request carries: query.repo_url / query.max_bytes for
\* GET, the body for POST (bodyValid = FALSE: the JSON body does not parse).
Request(method, contentType, bodyValid, url, maxb) ==
    [method |-> method, contentType |-> contentType, bodyValid |-> bodyValid,
     repo_url |-> url, max_bytes |-> maxb]

Requests ==
    { Request("GET", "", TRUE, UrlRepo, Num(0)),
      Request("GET", "", TRUE, UrlRepoRef, Num(2)),
      Request("GET", "", TRUE, UrlScp, NaN),
      Request("GET", "", TRUE, <<>>, NaN),
      Request("POST", "application/json", TRUE, UrlOwnerOnly, Num(2)),
      Request("POST", "application/json", FALSE, <<>>, NaN),
      Request("POST", "application/x-www-form-urlencoded", TRUE, UrlScp, NaN),
      Request("POST", "text/plain", TRUE, UrlRepo, NaN),
      Request("POST", "application/json", TRUE, <<>>, NaN),
      Request("PUT", "", TRUE, UrlRepo, NaN) }

\* ------------------------------------------------------------------------
\* State
\* ------------------------------------------------------------------------

VARIABLES
    pc,               \* position of the request in handler / generateHtmlFromRepo
    req,              \* the request being handled
    repo_url,         \* handler: repo_url
    max_bytes,        \* handler: max_bytes
    res,              \* responses written with res.end, in order
    tmp,              \* the temporary directory: "none", "exists", "removed"
    cloned,           \* outcome of git_clone: "none", "ok", "failed"
    candidates,       \* tryFetchGithubZip: candidate refs not yet tried
    fetched,          \* archive downloads attempted so far, with their outcome
    tree,             \* the directory tree on disk under effectiveRepoDir
    effectiveRepoDir, \* generateHtmlFromRepo: effectiveRepoDir
    head,             \* generateHtmlFromRepo: head
    stack,            \* collect_files: the active calls of walk
    infos,            \* collect_files: infos
    walkFailed,       \* a readdir of the classification walk has failed
    buildCalled,      \* build_html has been called
    tlines,           \* generate_tree_fallback: lines
    pending,          \* generate_tree_fallback: readdir calls in flight
    cxml,             \* generate_cxml_text: lines
    idx,              \* generate_cxml_text: idx
    cxmlPos,          \* generate_cxml_text: position of the loop in rendered
    cxmlOutcome,      \* outcome of each readFile of generate_cxml_text
    sections,         \* build_html: sections
    secOutcome,       \* outcome of each read-and-transform of build_html
    result,           \* what generateHtmlFromRepo returns or throws
    faults            \* failures injected so far

vars == << pc, req, repo_url, max_bytes, res, tmp, cloned, candidates, fetched,
           tree, effectiveRepoDir, head, stack, infos, walkFailed, buildCalled,
           tlines, pending, cxml, idx, cxmlPos, cxmlOutcome, sections,
           secOutcome, result, faults >>

acqVars == << cloned, candidates, fetched, tree, effectiveRepoDir, head >>
walkVars == << stack, infos, walkFailed >>
buildVars == << buildCalled, tlines, pending, cxml, idx, cxmlPos, cxmlOutcome,
                sections, secOutcome >>
reqVars == << req, repo_url, max_bytes >>

\* os.tmpdir()/rendergit-XXXXXX and the repo directory inside it
TmpDir == <<"/", "t">>
RepoDir == PathJoin(TmpDir, <<"r", "e", "p", "o">>)

Unknown == <<"(", "u", "n", "k", "n", "o", "w", "n", ")">>
HeadHash == <<"a", "b", "c", "1", "2", "3">>

CanFail == faults < MaxFaults

Init ==
    /\ pc = "handler"
    /\ req \in Requests
    /\ repo_url = <<>>
    /\ max_bytes = MAX_DEFAULT_BYTES
    /\ res = <<>>
    /\ tmp = "none"
    /\ cloned = "none"
    /\ candidates = <<>>
    /\ fetched = <<>>
    /\ tree = <<>>
    /\ effectiveRepoDir = <<>>
    /\ head = Unknown
    /\ stack = <<>>
    /\ infos = <<>>
    /\ walkFailed = FALSE
    /\ buildCalled = FALSE
    /\ tlines = <<>>
    /\ pending = {}
    /\ cxml = <<>>
    /\ idx = 1
    /\ cxmlPos = 1
    /\ cxmlOutcome = <<>>
    /\ sections = <<>>
    /\ secOutcome = <<>>
    /\ result = [kind |-> "none"]
    /\ faults = 0

\* ------------------------------------------------------------------------
\* handler (api/render.js)
\* ------------------------------------------------------------------------

Response(status, contentType, body) ==
    [status |-> status, contentType |-> contentType, body |-> body]

\* The synchronous part of handler: the whole GET validation, the
\* registration of the body listeners for POST, 405 for any other method.
HandleRequest ==
    /\ pc = "handler"
    /\ IF req.method = "GET"
       THEN /\ repo_url' = req.repo_url
            /\ max_bytes' = ParseMaxBytes(req.max_bytes)
            /\ IF req.repo_url = <<>>
               THEN /\ res' = Append(res, Response(400, "text/html",
                                  [error |-> "Missing 'repo_url' query parameter."]))
                    /\ pc' = "done"
               ELSE IF ~HasHttpScheme(req.repo_url)
                    THEN /\ res' = Append(res, Response(400, "text/html",
                                  [error |-> "repo_url must start with http:// or https://"]))
                         /\ pc' = "done"
                    ELSE /\ pc' = "mkdtemp"
                         /\ UNCHANGED res
       ELSE IF req.method = "POST"
            THEN /\ pc' = "post_end"
                 /\ UNCHANGED << repo_url, max_bytes, res >>
            ELSE /\ res' = Append(res, Response(405, "application/json",
                                  [error |-> "Method not allowed"]))
                 /\ pc' = "done"
                 /\ UNCHANGED << repo_url, max_bytes >>
    /\ UNCHANGED << req, tmp, acqVars, walkVars, buildVars, result, faults >>

\* The 'end' listener of a POST request, up to the call of
\* generateHtmlFromRepo.
PostEnd ==
    /\ pc = "post_end"
    /\ IF req.contentType = "application/json" /\ ~req.bodyValid
       THEN \* JSON.parse throws: the listener's catch answers 500
            /\ res' = Append(res, Response(500, "application/json",
                                  [error |-> "Unexpected token"]))
            /\ pc' = "done"
            /\ UNCHANGED << repo_url, max_bytes >>
       ELSE LET known == req.contentType \in
                            { "application/json",
                              "application/x-www-form-urlencoded" }
                url   == IF known THEN req.repo_url ELSE <<>>
                maxb  == IF known THEN req.max_bytes ELSE NaN
            IN /\ repo_url' = url
               /\ max_bytes' = ParseMaxBytes(maxb)
               /\ IF url = <<>>
                  THEN /\ res' = Append(res, Response(400, "application/json",
                                  [error |-> "Missing 'repo_url' in request body"]))
                       /\ pc' = "done"
                  ELSE /\ pc' = "mkdtemp"
                       /\ UNCHANGED res
    /\ UNCHANGED << req, tmp, acqVars, walkVars, buildVars, result, faults >>

\* res.end after generateHtmlFromRepo has returned or thrown: 200 with the
\* page, or 500 from the catch of the branch that made the call.
Respond ==
    /\ pc = "respond"
    /\ res' = Append(res,
                IF result.kind = "html"
                THEN Response(200, "text/html", result)
                ELSE Response(500,
                              IF req.method = "GET" THEN "text/html"
                              ELSE "application/json",
                              result))
    /\ pc' = "done"
    /\ UNCHANGED << reqVars, tmp, acqVars, walkVars, buildVars, result, faults >>

\* ------------------------------------------------------------------------
\* generateHtmlFromRepo and tryFetchGithubZip (api/render.js)
\* ------------------------------------------------------------------------

Thrown(message) == [kind |-> "error", message |-> message]

\* collect_files(root): the first call of walk, before its readdir.
WalkFrame(dir) == [dir |-> dir, read |-> FALSE, entries |-> <<>>, i |-> 1]

\* fs.mkdtemp, before the try block: a failure leaves nothing to remove.
Mkdtemp ==
    /\ pc = "mkdtemp"
    /\ \/ /\ tmp' = "exists"
          /\ pc' = "clone"
          /\ UNCHANGED << result, faults >>
       \/ /\ CanFail
          /\ faults' = faults + 1
          /\ result' = Thrown("ENOSPC")
          /\ pc' = "respond"
          /\ UNCHANGED tmp
    /\ UNCHANGED << reqVars, res, acqVars, walkVars, buildVars >>

\* await git_clone(repoUrl, repoDir): on success the snapshot is on disk
\* at repoDir, on failure control enters the catch block.
GitClone ==
    /\ pc = "clone"
    /\ \/ \E t \in Snapshots :
             /\ cloned' = "ok"
             /\ tree' = t
             /\ effectiveRepoDir' = RepoDir
             /\ pc' = "head"
       \/ /\ cloned' = "failed"
          /\ pc' = "zip"
          /\ UNCHANGED << tree, effectiveRepoDir >>
    /\ UNCHANGED << reqVars, res, tmp, candidates, fetched, head, walkVars,
                    buildVars, result, faults >>

\* head = await git_head_commit(repoDir), which catches its own failure;
\* then collect_files is called.
GitHeadCommit ==
    /\ pc = "head"
    /\ \/ /\ head' = HeadHash
          /\ UNCHANGED faults
       \/ /\ CanFail
          /\ faults' = faults + 1
          /\ head' = Unknown
    /\ stack' = << WalkFrame(effectiveRepoDir) >>
    /\ pc' = "collect"
    /\ UNCHANGED << reqVars, res, tmp, cloned, candidates, fetched, tree,
                    effectiveRepoDir, infos, walkFailed, buildVars, result >>

\* The catch block: tryFetchGithubZip up to its loop.  Without owner and
\* repo it returns null and the run throws.
TryFetchGithubZip ==
    /\ pc = "zip"
    /\ LET gh == parseGithub(repo_url)
       IN IF gh.owner = <<>> \/ gh.repo = <<>>
          THEN /\ result' = Thrown("Failed to fetch repo")
               /\ pc' = "finally"
               /\ UNCHANGED candidates
          ELSE /\ candidates' = ZipCandidates(gh.ref)
               /\ pc' = "zip_fetch"
               /\ UNCHANGED result
    /\ UNCHANGED << reqVars, res, tmp, cloned, fetched, tree, effectiveRepoDir,
                    head, walkVars, buildVars, faults >>

\* One iteration of the loop over candidates.  The archive either is not
\* served (resp.ok false), or a step throws, or it extracts without leaving
\* a directory, or it extracts and subdirs[0] is returned.  After the last
\* candidate the function returns null and the run throws.
ZipCandidate ==
    /\ pc = "zip_fetch"
    /\ candidates # <<>>
    /\ LET gh == parseGithub(repo_url)
           r  == Head(candidates)
           attempt(outcome) == [owner |-> gh.owner, repo |-> gh.repo,
                                ref |-> r, outcome |-> outcome]
       IN /\ \/ \E t \in Snapshots :
                   /\ fetched' = Append(fetched, attempt("ok"))
                   /\ tree' = t
                   /\ effectiveRepoDir' =
                          PathJoin(RepoDir, gh.repo \o <<"-">> \o r)
                   /\ stack' = << WalkFrame(effectiveRepoDir') >>
                   /\ pc' = "collect"
                   /\ UNCHANGED << candidates, result >>
             \/ \E outcome \in { "not_ok", "threw", "no_subdir" } :
                   /\ fetched' = Append(fetched, attempt(outcome))
                   /\ candidates' = Tail(candidates)
                   /\ IF Tail(candidates) = <<>>
                      THEN /\ result' = Thrown("Failed to fetch repo")
                           /\ pc' = "finally"
                      ELSE /\ pc' = "zip_fetch"
                           /\ UNCHANGED result
                   /\ UNCHANGED << tree, effectiveRepoDir, stack >>
    /\ UNCHANGED << reqVars, res, tmp, cloned, head, infos, walkFailed,
                    buildVars, faults >>

\* The finally block: fs.rm(tmp, { recursive: true, force: true }), after
\* which the pending return value or exception leaves the function.
FinallySkipsRemoval ==
    /\ pc = "finally"
    /\ tmp' = IF result.kind = "html" THEN "removed" ELSE tmp
    /\ pc' = "respond"
    /\ UNCHANGED << reqVars, res, acqVars, walkVars, buildVars, result, faults >>

Finally ==
    /\ pc = "finally"
    /\ tmp' = "removed"
    /\ pc' = "respond"
    /\ UNCHANGED << reqVars, res, acqVars, walkVars, buildVars, result, faults >>

\* ------------------------------------------------------------------------
\* collect_files (repo_to_single_page.js)
\* ------------------------------------------------------------------------

\* fs.readdir(dir, { withFileTypes: true }) when it succeeds
Readdir(dir) == tree[PathRelative(effectiveRepoDir, dir)]

Top == stack[Len(stack)]
ReplaceTop(f) == [stack EXCEPT ![Len(stack)] = f]

CollectReaddirSwallowsError ==
    /\ pc = "collect"
    /\ stack # <<>>
    /\ ~Top.read
    /\ \/ /\ stack' = ReplaceTop([Top EXCEPT !.read = TRUE,
                                             !.entries = Readdir(Top.dir)])
          /\ UNCHANGED << walkFailed, faults >>
       \/ /\ CanFail
          /\ faults' = faults + 1
          /\ walkFailed' = TRUE
          /\ stack' = ReplaceTop([Top EXCEPT !.read = TRUE])
    /\ UNCHANGED << pc, result, reqVars, res, tmp, acqVars, infos, buildVars >>

\* walk(dir): const entries = await fs.readdir(dir, ...).  A failure rejects
\* every enclosing walk and collect_files itself.
CollectReaddir ==
    /\ pc = "collect"
    /\ stack # <<>>
    /\ ~Top.read
    /\ \/ /\ stack' = ReplaceTop([Top EXCEPT !.read = TRUE,
                                             !.entries = Readdir(Top.dir)])
          /\ UNCHANGED << pc, result, walkFailed, faults >>
       \/ /\ CanFail
          /\ faults' = faults + 1
          /\ walkFailed' = TRUE
          /\ result' = Thrown("ENOENT")
          /\ pc' = "finally"
          /\ UNCHANGED stack
    /\ UNCHANGED << reqVars, res, tmp, acqVars, infos, buildVars >>

\* One iteration of the for loop of walk: a symbolic link is skipped, a
\* directory is walked, a regular file is classified (a failing fs.stat
\* gives size 0), anything else is passed over.
CollectEntry ==
    /\ pc = "collect"
    /\ stack # <<>>
    /\ Top.read
    /\ Top.i <= Len(Top.entries)
    /\ LET entry    == Top.entries[Top.i]
           fullPath == PathJoin(Top.dir, entry.name)
           advanced == ReplaceTop([Top EXCEPT !.i = Top.i + 1])
       IN IF isSymbolicLink(entry)
          THEN /\ stack' = advanced
               /\ UNCHANGED << infos, faults >>
          ELSE IF isDirectory(entry)
               THEN /\ stack' = Append(advanced, WalkFrame(fullPath))
                    /\ UNCHANGED << infos, faults >>
               ELSE IF isFile(entry)
                    THEN /\ stack' = advanced
                         /\ \/ /\ infos' = Append(infos,
                                     decideFile(fullPath, effectiveRepoDir, max_bytes,
                                                [ok |-> TRUE, size |-> entry.size]))
                               /\ UNCHANGED faults
                            \/ /\ CanFail
                               /\ faults' = faults + 1
                               /\ infos' = Append(infos,
                                     decideFile(fullPath, effectiveRepoDir, max_bytes,
                                                [ok |-> FALSE]))
                    ELSE /\ stack' = advanced
                         /\ UNCHANGED << infos, faults >>
    /\ UNCHANGED << pc, reqVars, res, tmp, acqVars, walkFailed, buildVars, result >>

\* The for loop of a walk is over: the call returns to the walk that
\* awaited it; when the outermost walk returns, collect_files returns infos
\* and generateHtmlFromRepo calls build_html.
CollectReturn ==
    /\ pc = "collect"
    /\ stack # <<>>
    /\ Top.read
    /\ Top.i > Len(Top.entries)
    /\ stack' = SubSeq(stack, 1, Len(stack) - 1)
    /\ pc' = IF Len(stack) = 1 THEN "build" ELSE "collect"
    /\ UNCHANGED << reqVars, res, tmp, acqVars, infos, walkFailed, buildVars,
                    result, faults >>

\* ------------------------------------------------------------------------
\* build_html, generate_tree_fallback, generate_cxml_text
\* (repo_to_single_page.js)
\* ------------------------------------------------------------------------

\* The four filters at the top of build_html.
renderedUnfiltered(is) == is

rendered(is) == SelectSeq(is, LAMBDA i : i.decision.include)
skipped_binary(is) == SelectSeq(is, LAMBDA i : i.decision.reason = "binary")
skipped_large(is) == SelectSeq(is, LAMBDA i : i.decision.reason = "too_large")
skipped_ignored(is) == SelectSeq(is, LAMBDA i : i.decision.reason = "ignored")

total_filesWithoutIgnored(is) ==
    Len(rendered(is)) + Len(skipped_binary(is)) + Len(skipped_large(is))

total_files(is) ==
    Len(rendered(is)) + Len(skipped_binary(is)) + Len(skipped_large(is))
        + Len(skipped_ignored(is))

FilePrefix == <<"f", "i", "l", "e", "-">>

\* One <li> of toc_html per rendered record.
toc_html(is) ==
    [k \in 1..Len(rendered(is)) |->
        [href |-> FilePrefix \o slugify(rendered(is)[k].rel),
         rel  |-> rendered(is)[k].rel,
         size |-> rendered(is)[k].size]]

\* render_skip_list(title, items): nothing for an empty group.
render_skip_list(title, items) ==
    IF Len(items) = 0 THEN <<>>
    ELSE << [title |-> title, count |-> Len(items),
             lis |-> [k \in 1..Len(items) |->
                        [rel |-> items[k].rel, size |-> items[k].size]]] >>

\* What fs.readFile(path, 'utf-8') yields for a file, and the two text
\* transformers, each kept distinct from its input.
FileText(path) == [kind |-> "text", of |-> path]
marked(text) == [kind |-> "marked", src |-> text]
highlightAuto(text) == [kind |-> "highlight", src |-> text]

ErrorMessage(outcome) ==
    IF outcome = "read_failed" THEN "EACCES: permission denied"
    ELSE "transform failed"

\* body_html of one section; outcome is "ok", "read_failed" (readFile
\* throws) or "transform_failed" (marked or highlightAuto throws).
SectionBodyBlankOnError(i, outcome) ==
    IF outcome = "ok"
    THEN IF toLowerCase(PathExtname(i.path)) \in MARKDOWN_EXTENSIONS
         THEN marked(FileText(i.path))
         ELSE highlightAuto(FileText(i.path))
    ELSE [kind |-> "empty"]

SectionBody(i, outcome) ==
    IF outcome = "ok"
    THEN IF toLowerCase(PathExtname(i.path)) \in MARKDOWN_EXTENSIONS
         THEN marked(FileText(i.path))
         ELSE highlightAuto(FileText(i.path))
    ELSE [kind |-> "error", label |-> "Failed to render: ",
          message |-> ErrorMessage(outcome)]

\* The line pushed between <document_content> and </document_content>.
CxmlContentRendered(i, outcome) ==
    IF outcome = "ok"
    THEN IF toLowerCase(PathExtname(i.path)) \in MARKDOWN_EXTENSIONS
         THEN marked(FileText(i.path))
         ELSE FileText(i.path)
    ELSE [kind |-> "error", label |-> "Failed to read: ",
          message |-> ErrorMessage(outcome)]

CxmlContent(i, outcome) ==
    IF outcome = "ok"
    THEN FileText(i.path)
    ELSE [kind |-> "error", label |-> "Failed to read: ",
          message |-> ErrorMessage(outcome)]

\* ASCII stand-ins for the box-drawing connectors of the tree text.
BranchLast == <<"+", "-", "-", " ">>
BranchMid == <<"|", "-", "-", " ">>
ExtensionLast == <<" ", " ", " ", " ">>
ExtensionMid == <<"|", " ", " ", " ">>

\* A line of the tree text.  Only text is in the program; dir, name and
\* isDir record which entry the line was pushed for.
TreeLine(text, dir, name, isDir) ==
    [text |-> text, dir |-> dir, name |-> name, isDir |-> isDir]

\* The entries of one directory as walk lists them: .git removed, sorted.
TreeEntries(entries) ==
    SortEntries(SelectSeq(entries, LAMBDA e : e.name # <<".", "g", "i", "t">>))

\* build_html is called: the filters and toc_html are computed from infos,
\* generate_tree_fallback pushes the root's name and starts the first
\* readdir.
BuildHtml ==
    /\ pc = "build"
    /\ buildCalled' = TRUE
    /\ tlines' = << TreeLine(PathBasename(effectiveRepoDir), <<>>,
                             PathBasename(effectiveRepoDir), TRUE) >>
    /\ pending' = { [dir |-> effectiveRepoDir, prefix |-> <<>>] }
    /\ pc' = "tree"
    /\ UNCHANGED << reqVars, res, tmp, acqVars, walkVars, cxml, idx, cxmlPos,
                    cxmlOutcome, sections, secOutcome, result, faults >>

\* The .then callback of one readdir of generate_tree_fallback's walk.
\* Promise.all(entries.map(async ...)) runs every callback up to its first
\* await at once: the line of every entry is pushed and the readdir of
\* every subdirectory is started.  The readdirs in flight complete in any
\* order.  A failing readdir rejects walk(root) and with it build_html.
TreeReaddirDone ==
    /\ pc = "tree"
    /\ \E p \in pending :
          \/ LET es == TreeEntries(Readdir(p.dir))
                 lineOf(k) ==
                     TreeLine(p.prefix
                                \o (IF k = Len(es) THEN BranchLast ELSE BranchMid)
                                \o es[k].name,
                              p.dir, es[k].name, isDirectory(es[k]))
                 child(k) ==
                     [dir |-> PathJoin(p.dir, es[k].name),
                      prefix |-> p.prefix
                                   \o (IF k = Len(es) THEN ExtensionLast
                                       ELSE ExtensionMid)]
             IN /\ tlines' = tlines \o [k \in 1..Len(es) |-> lineOf(k)]
                /\ pending' = (pending \ {p})
                                  \cup { child(k) : k \in
                                           { j \in 1..Len(es) : isDirectory(es[j]) } }
                /\ UNCHANGED << pc, result, faults >>
          \/ /\ CanFail
             /\ faults' = faults + 1
             /\ result' = Thrown("ENOENT")
             /\ pc' = "finally"
             /\ UNCHANGED << tlines, pending >>
    /\ UNCHANGED << reqVars, res, tmp, acqVars, walkVars, buildCalled, cxml, idx,
                    cxmlPos, cxmlOutcome, sections, secOutcome >>

\* walk(root) has resolved: tree_text is the joined lines, and
\* generate_cxml_text starts with its opening line.
TreeDone ==
    /\ pc = "tree"
    /\ pending = {}
    /\ cxml' = << [tag |-> "documents_open"] >>
    /\ idx' = 1
    /\ cxmlPos' = 1
    /\ pc' = "cxml"
    /\ UNCHANGED << reqVars, res, tmp, acqVars, walkVars, buildCalled, tlines,
                    pending, cxmlOutcome, sections, secOutcome, result, faults >>

\* One iteration of the loop of generate_cxml_text.
CxmlStep ==
    /\ pc = "cxml"
    /\ cxmlPos <= Len(rendered(infos))
    /\ LET i == rendered(infos)[cxmlPos]
       IN \E outcome \in { "ok", "read_failed" } :
            /\ outcome # "ok" => CanFail
            /\ faults' = IF outcome = "ok" THEN faults ELSE faults + 1
            /\ cxml' = cxml \o
                 << [tag |-> "document_open", index |-> idx],
                    [tag |-> "source", rel |-> i.rel],
                    [tag |-> "document_content_open"],
                    [tag |-> "content", value |-> CxmlContent(i, outcome)],
                    [tag |-> "document_content_close"],
                    [tag |-> "document_close"] >>
            /\ cxmlOutcome' = Append(cxmlOutcome, outcome)
    /\ idx' = idx + 1
    /\ cxmlPos' = cxmlPos + 1
    /\ UNCHANGED << pc, reqVars, res, tmp, acqVars, walkVars, buildCalled, tlines,
                    pending, sections, secOutcome, result >>

\* The loop is over: the closing line is pushed and build_html goes on to
\* its own loop over rendered.
CxmlDone ==
    /\ pc = "cxml"
    /\ cxmlPos > Len(rendered(infos))
    /\ cxml' = Append(cxml, [tag |-> "documents_close"])
    /\ pc' = "sections"
    /\ UNCHANGED << reqVars, res, tmp, acqVars, walkVars, buildCalled, tlines,
                    pending, idx, cxmlPos, cxmlOutcome, sections, secOutcome,
                    result, faults >>

\* One iteration of the section loop of build_html: read, transform, and
\* on either failure the placeholder; the section is pushed in every case.
SectionStep ==
    /\ pc = "sections"
    /\ Len(sections) < Len(rendered(infos))
    /\ LET i == rendered(infos)[Len(sections) + 1]
       IN \E outcome \in { "ok", "read_failed", "transform_failed" } :
            /\ outcome # "ok" => CanFail
            /\ faults' = IF outcome = "ok" THEN faults ELSE faults + 1
            /\ sections' = Append(sections,
                                  [anchor |-> FilePrefix \o slugify(i.rel),
                                   rel |-> i.rel, size |-> i.size,
                                   body_html |-> SectionBody(i, outcome)])
            /\ secOutcome' = Append(secOutcome, outcome)
    /\ UNCHANGED << pc, reqVars, res, tmp, acqVars, walkVars, buildCalled, tlines,
                    pending, cxml, idx, cxmlPos, cxmlOutcome, result >>

\* The page build_html returns, as the values interpolated into it.
Document ==
    [repo_url     |-> repo_url,
     head_commit  |-> head,
     total_files  |-> total_files(infos),
     rendered     |-> Len(rendered(infos)),
     skipped      |-> Len(skipped_binary(infos)) + Len(skipped_large(infos))
                        + Len(skipped_ignored(infos)),
     tree_text    |-> [k \in 1..Len(tlines) |-> tlines[k].text],
     toc_html     |-> toc_html(infos),
     skipped_html |-> render_skip_list("Skipped binaries", skipped_binary(infos))
                        \o render_skip_list("Skipped large files",
                                            skipped_large(infos)),
     sections     |-> sections,
     cxml_text    |-> cxml]

\* build_html returns the page; generateHtmlFromRepo returns it through the
\* finally block.
BuildReturn ==
    /\ pc = "sections"
    /\ Len(sections) = Len(rendered(infos))
    /\ result' = [kind |-> "html", doc |-> Document]
    /\ pc' = "finally"
    /\ UNCHANGED << reqVars, res, tmp, acqVars, walkVars, buildVars, faults >>

\* ------------------------------------------------------------------------
\* Specification
\* ------------------------------------------------------------------------

Next ==
    \/ HandleRequest
    \/ PostEnd
    \/ Mkdtemp
    \/ GitClone
    \/ GitHeadCommit
    \/ TryFetchGithubZip
    \/ ZipCandidate
    \/ CollectReaddir
    \/ CollectEntry
    \/ CollectReturn
    \/ BuildHtml
    \/ TreeReaddirDone
    \/ TreeDone
    \/ CxmlStep
    \/ CxmlDone
    \/ SectionStep
    \/ BuildReturn
    \/ Finally
    \/ Respond

Spec == Init /\ [][Next]_vars

TypeOK ==
    /\ pc \in { "handler", "post_end", "mkdtemp", "clone", "head", "zip",
                "zip_fetch", "collect", "build", "tree", "cxml", "sections",
                "finally", "respond", "done" }
    /\ tmp \in { "none", "exists", "removed" }
    /\ faults \in 0..MaxFaults

\* ------------------------------------------------------------------------
\* Properties
\* ------------------------------------------------------------------------

GitName == <<".", "g", "i", "t">>

\* The records with include set, selected independently of build_html.
Included == SelectSeq(infos, LAMBDA i : i.decision.include)

HasBinaryExtension(rel) == toLowerCase(PathExtname(rel)) \in BINARY_EXTENSIONS

\* A relative path lies inside a .git directory when one of its
\* components other than the last is named .git.
InsideGitDirectory(rel) ==
    LET parts == Split(rel, "/")
    IN \E k \in 1..(Len(parts) - 1) : parts[k] = GitName

ExpectedReason(r, maxBytes) ==
    IF InsideGitDirectory(r.rel) THEN "ignored"
    ELSE IF r.size > maxBytes THEN "too_large"
    ELSE IF HasBinaryExtension(r.rel) THEN "binary"
    ELSE "ok"

\* C1: every record of infos carries exactly the disposition the precedence
\* ignored > too_large > binary > include gives for its relative path, its
\* size and max_bytes (too_large exactly when size > max_bytes), and it is
\* included exactly when that disposition is "ok".
C1_DecisionPrecedence ==
    \A k \in 1..Len(infos) :
        /\ infos[k].decision.reason = ExpectedReason(infos[k], max_bytes)
        /\ infos[k].decision.include = (infos[k].decision.reason = "ok")

\* A walk has recorded: an ignored file that is also oversized and binary,
\* a too_large file of size max_bytes + 1 with a binary extension, and an
\* included file of size max_bytes.
C1_Witness ==
    /\ \E k \in 1..Len(infos) :
          /\ infos[k].decision.reason = "ignored"
          /\ infos[k].size > max_bytes
          /\ HasBinaryExtension(infos[k].rel)
    /\ \E k \in 1..Len(infos) :
          /\ infos[k].decision.reason = "too_large"
          /\ infos[k].size = max_bytes + 1
          /\ HasBinaryExtension(infos[k].rel)
    /\ \E k \in 1..Len(infos) :
          /\ infos[k].decision.include
          /\ infos[k].size = max_bytes

GroupIndexes(reason) ==
    { k \in 1..Len(infos) : infos[k].decision.reason = reason }
RenderedIndexes == { k \in 1..Len(infos) : infos[k].decision.include }

\* C2: once build_html is called, the index sets of its four groups are
\* pairwise disjoint and cover infos, total_files is the length of infos,
\* and the returned page reports Total = |infos| and Rendered + Skipped =
\* Total.
C2_GroupsPartition ==
    buildCalled =>
        /\ RenderedIndexes \cap GroupIndexes("binary") = {}
        /\ RenderedIndexes \cap GroupIndexes("too_large") = {}
        /\ RenderedIndexes \cap GroupIndexes("ignored") = {}
        /\ GroupIndexes("binary") \cap GroupIndexes("too_large") = {}
        /\ GroupIndexes("binary") \cap GroupIndexes("ignored") = {}
        /\ GroupIndexes("too_large") \cap GroupIndexes("ignored") = {}
        /\ RenderedIndexes \cup GroupIndexes("binary")
             \cup GroupIndexes("too_large") \cup GroupIndexes("ignored")
               = 1..Len(infos)
        /\ total_files(infos) = Len(infos)
        /\ result.kind = "html" =>
              /\ result.doc.total_files = Len(infos)
              /\ result.doc.rendered + result.doc.skipped
                    = result.doc.total_files

\* A page was returned for a list in which all four groups are non-empty.
C2_Witness ==
    /\ result.kind = "html"
    /\ RenderedIndexes # {}
    /\ GroupIndexes("binary") # {}
    /\ GroupIndexes("too_large") # {}
    /\ GroupIndexes("ignored") # {}

DocumentOpens(lines) == SelectSeq(lines, LAMBDA l : l.tag = "document_open")
Sources(lines) == SelectSeq(lines, LAMBDA l : l.tag = "source")
Contents(lines) == SelectSeq(lines, LAMBDA l : l.tag = "content")

\* C3: in a returned page the machine view has one document element per
\* included record; the k-th has index k and, on the next line, the
\* relative path of the k-th included record of infos; the table of
\* contents and the sections list the same paths in the same order.
C3_MachineViewOrder ==
    result.kind = "html" =>
        LET doc == result.doc
        IN /\ Len(DocumentOpens(doc.cxml_text)) = Len(Included)
           /\ Len(Sources(doc.cxml_text)) = Len(Included)
           /\ Len(doc.toc_html) = Len(Included)
           /\ Len(doc.sections) = Len(Included)
           /\ \A k \in 1..Len(Included) :
                 /\ DocumentOpens(doc.cxml_text)[k].index = k
                 /\ Sources(doc.cxml_text)[k].rel = Included[k].rel
                 /\ doc.toc_html[k].rel = Included[k].rel
                 /\ doc.sections[k].rel = Included[k].rel
           /\ \A j \in 1..Len(doc.cxml_text) :
                 doc.cxml_text[j].tag = "document_open" =>
                     doc.cxml_text[j + 1].tag = "source"

\* A page was returned with at least two included records, one of them
\* discovered after a skipped record.
C3_Witness ==
    /\ result.kind = "html"
    /\ Len(Included) >= 2
    /\ \E a, b \in 1..Len(infos) :
          a < b /\ ~infos[a].decision.include /\ infos[b].decision.include

\* The tree text is complete once walk(root) has resolved.
TreeComplete ==
    pc \in { "cxml", "sections" } \/ result.kind = "html"

\* The path of the entry a line was pushed for.
LinePath(l) == IF l.dir = <<>> THEN effectiveRepoDir ELSE PathJoin(l.dir, l.name)

\* Line j is for an entry somewhere below the directory of line i.
Below(j, i) ==
    tlines[i].isDir
      /\ StartsWith(tlines[j].dir \o <<"/">>, LinePath(tlines[i]) \o <<"/">>)

\* C4: in the complete tree text the lines of a directory's descendants
\* come directly after the directory's own line, before the line of its
\* next sibling (depth-first pre-order), whatever order the readdirs
\* completed in.
C4_DepthFirstPreOrder ==
    TreeComplete =>
        \A i, j \in 1..Len(tlines) :
            Below(j, i) => /\ j > i
                           /\ \A k \in (i + 1)..j : Below(k, i)

\* Dictionary order of two names: letter by letter, case ignored.
AlphabeticalLeq(a, b) ==
    LexCompare([i \in 1..Len(a) |-> PrimaryWeight(toLowerCase(a)[i])],
               [i \in 1..Len(b) |-> PrimaryWeight(toLowerCase(b)[i])]) <= 0

\* The lines pushed for the entries of directory d, in text order.
LinesOf(d) == SelectSeq(tlines, LAMBDA l : l.dir = d)

\* C5: among the lines of the entries of one directory no file precedes a
\* subdirectory, the subdirectories are in alphabetical order and so are
\* the files, and no line is for an entry named .git; in the complete text
\* every listed directory has one line per entry other than .git.
C5_DirectoriesFirstAlphabetical ==
    /\ \A a, b \in 2..Len(tlines) :
          (a < b /\ tlines[a].dir = tlines[b].dir) =>
              /\ tlines[a].isDir \/ ~tlines[b].isDir
              /\ tlines[a].isDir = tlines[b].isDir =>
                    AlphabeticalLeq(tlines[a].name, tlines[b].name)
    /\ \A a \in 2..Len(tlines) : tlines[a].name # GitName
    /\ TreeComplete =>
          \A i \in 1..Len(tlines) :
              tlines[i].isDir =>
                  Len(LinesOf(LinePath(tlines[i])))
                     = Len(SelectSeq(Readdir(LinePath(tlines[i])),
                                     LAMBDA e : e.name # GitName))

\* A complete tree text in which one directory lists two subdirectories
\* and two files, read from disk in another order than they are listed.
C5_Witness ==
    /\ TreeComplete
    /\ \E a, b, c, d \in 2..Len(tlines) :
          /\ a < b /\ b < c /\ c < d
          /\ tlines[a].dir = tlines[d].dir
          /\ tlines[b].dir = tlines[d].dir
          /\ tlines[c].dir = tlines[d].dir
          /\ tlines[a].isDir /\ tlines[b].isDir
          /\ ~tlines[c].isDir /\ ~tlines[d].isDir
          /\ Readdir(tlines[a].dir)[1].name = tlines[c].name

Placeholder(label, outcome) ==
    [kind |-> "error", label |-> label, message |-> ErrorMessage(outcome)]

\* generateHtmlFromRepo has returned or thrown.
RunOver == pc \in { "respond", "done" }

\* C6: a failing read or transform of an included record in the section
\* loop never makes the run fail, and in the returned page that record
\* still has its table-of-contents entry and its section, whose body is the
\* "Failed to render" placeholder with the failure message, while every
\* record whose read and transform succeeded has its rendered body.
C6_RenderFailureIsolated ==
    /\ (\E k \in 1..Len(secOutcome) : secOutcome[k] # "ok")
          => result.kind # "error"
    /\ result.kind = "html" =>
          /\ Len(secOutcome) = Len(Included)
          /\ \A k \in 1..Len(Included) :
                /\ result.doc.toc_html[k].rel = Included[k].rel
                /\ result.doc.sections[k].rel = Included[k].rel
                /\ secOutcome[k] # "ok" =>
                      result.doc.sections[k].body_html
                          = Placeholder("Failed to render: ", secOutcome[k])
                /\ secOutcome[k] = "ok" =>
                      result.doc.sections[k].body_html.kind
                          \in { "marked", "highlight" }

\* A page was returned in which the read of one included record failed in
\* the section loop and a later record was rendered.
C6_Witness ==
    /\ result.kind = "html"
    /\ \E k, j \in 1..Len(secOutcome) :
          k < j /\ secOutcome[k] = "read_failed" /\ secOutcome[j] = "ok"

\* C7: a failing read in generate_cxml_text never makes the run fail; in
\* the returned page the document_content of the k-th included record is
\* the raw text of the file when the machine view's own read succeeded and
\* the "Failed to read" message when it failed, whatever the section loop
\* did with the file, and the section body is decided by the section
\* loop's own outcome alone.
C7_ViewsIndependent ==
    /\ (\E k \in 1..Len(cxmlOutcome) : cxmlOutcome[k] # "ok")
          => result.kind # "error"
    /\ result.kind = "html" =>
          /\ Len(cxmlOutcome) = Len(Included)
          /\ Len(Contents(result.doc.cxml_text)) = Len(Included)
          /\ \A k \in 1..Len(Included) :
                /\ Contents(result.doc.cxml_text)[k].value
                      = IF cxmlOutcome[k] = "ok"
                        THEN [kind |-> "text", of |-> Included[k].path]
                        ELSE Placeholder("Failed to read: ", cxmlOutcome[k])
                /\ result.doc.sections[k].body_html
                      = IF secOutcome[k] = "ok"
                        THEN IF toLowerCase(PathExtname(Included[k].path))
                                  \in MARKDOWN_EXTENSIONS
                             THEN [kind |-> "marked",
                                   src |-> [kind |-> "text",
                                            of |-> Included[k].path]]
                             ELSE [kind |-> "highlight",
                                   src |-> [kind |-> "text",
                                            of |-> Included[k].path]]
                        ELSE Placeholder("Failed to render: ", secOutcome[k])

\* A page was returned in which one markdown file was read for the machine
\* view but failed in the section loop, and another file failed for the
\* machine view but was rendered in the section loop.
C7_Witness ==
    /\ result.kind = "html"
    /\ \E k, j \in 1..Len(Included) :
          /\ cxmlOutcome[k] = "ok" /\ secOutcome[k] # "ok"
          /\ toLowerCase(PathExtname(Included[k].path)) \in MARKDOWN_EXTENSIONS
          /\ cxmlOutcome[j] # "ok" /\ secOutcome[j] = "ok"

\* C8: once generateHtmlFromRepo has returned or thrown, a temporary
\* directory that was created has been removed.
C8_TmpRemoved ==
    RunOver => tmp # "exists"

\* A run that created the directory and then failed is over and the
\* directory is gone.
C8_Witness ==
    /\ pc = "done"
    /\ result.kind = "error"
    /\ tmp = "removed"

\* C9: when a readdir of the classification walk has failed, build_html is
\* not called, no page is produced, no response has status 200, and the
\* finished request has exactly one response, with status 500.
C9_WalkFailureIsFatal ==
    walkFailed =>
        /\ ~buildCalled
        /\ result.kind # "html"
        /\ \A k \in 1..Len(res) : res[k].status # 200
        /\ pc = "done" => (Len(res) = 1 /\ res[1].status = 500)

\* A request has ended after a readdir below the root failed, when files
\* had already been recorded.
C9_Witness ==
    /\ pc = "done"
    /\ walkFailed
    /\ infos # <<>>

\* The clone step is over and so is the fallback it may have started.
AcquisitionOver ==
    cloned # "none" /\ pc \notin { "zip", "zip_fetch" }

FailedToFetch == [kind |-> "error", message |-> "Failed to fetch repo"]

\* C10 as stated: an archive download has been attempted if and only if
\* the clone failed.
C10_ZipIffCloneFailed ==
    AcquisitionOver => ((fetched # <<>>) <=> (cloned = "failed"))

\* The URL parses and its path has at least two non-empty segments.
HasOwnerAndRepo(url) ==
    /\ URLValid(url)
    /\ Len(SelectSeq(Split(URLPathname(url), "/"), LAMBDA x : x # <<>>)) >= 2

\* The refs tried, in order: the ref named in the URL if any, main, master.
ExpectedRefs ==
    (IF parseGithub(repo_url).ref = <<>> THEN <<>>
     ELSE << parseGithub(repo_url).ref >>)
        \o << <<"m", "a", "i", "n">>, <<"m", "a", "s", "t", "e", "r">> >>

\* C10 amended: an archive is fetched only after the clone failed, and
\* after a failed clone exactly when the URL's path gives an owner and a
\* repo; the candidates are tried in the order ref, main, master and only
\* the last attempt can have produced a directory; when it did, the walk
\* runs on that directory below repoDir; the run throws "Failed to fetch
\* repo" only after a failed clone with no attempt that produced a
\* directory, every candidate having been tried unless the URL gave no
\* owner and repo.
C10_ZipFallback ==
    cloned # "none" =>
        LET refs     == ExpectedRefs
            hasRepo  == HasOwnerAndRepo(repo_url)
            attempts == Len(fetched)
        IN /\ fetched # <<>> => cloned = "failed"
           /\ (AcquisitionOver /\ cloned = "failed") =>
                 ((fetched # <<>>) <=> hasRepo)
           /\ attempts <= Len(refs)
           /\ \A k \in 1..attempts :
                 /\ fetched[k].ref = refs[k]
                 /\ k < attempts => fetched[k].outcome # "ok"
           /\ (AcquisitionOver /\ fetched # <<>>
                 /\ fetched[attempts].outcome = "ok") =>
                    /\ result # FailedToFetch
                    /\ effectiveRepoDir # RepoDir
                    /\ StartsWith(effectiveRepoDir, RepoDir \o <<"/">>)
                    /\ \A k \in 1..Len(infos) :
                          StartsWith(infos[k].path, effectiveRepoDir \o <<"/">>)
           /\ (AcquisitionOver /\ cloned = "ok") =>
                 (effectiveRepoDir = RepoDir /\ result # FailedToFetch)
           /\ result = FailedToFetch =>
                 /\ cloned = "failed"
                 /\ \A k \in 1..attempts : fetched[k].outcome # "ok"
                 /\ hasRepo => attempts = Len(refs)

\* A page was returned from an archive that was fetched after the clone
\* and the first candidate had failed.
C10_Witness ==
    /\ result.kind = "html"
    /\ cloned = "failed"
    /\ Len(fetched) >= 2
    /\ fetched[Len(fetched)].outcome = "ok"

\* generateHtmlFromRepo has been called for the request.
RetrievalStarted ==
    \/ pc = "mkdtemp"
    \/ tmp # "none"
    \/ cloned # "none"
    \/ result.kind # "none"

\* The request is a GET or a POST whose parameters the handler can read.
ParametersRead ==
    \/ req.method = "GET"
    \/ /\ req.method = "POST"
       /\ \/ req.contentType = "application/x-www-form-urlencoded"
          \/ req.contentType = "application/json" /\ req.bodyValid

\* C11: whatever the method, generateHtmlFromRepo is called (temporary
\* directory created, clone attempted) only for a repo_url that is present
\* and starts with http:// or https://; a request whose repo_url is
\* anything else ends with a single 400 response.
C11_RetrievalOnlyForHttpUrl ==
    /\ RetrievalStarted =>
          (req.repo_url # <<>> /\ HasHttpScheme(req.repo_url))
    /\ (pc = "done" /\ ParametersRead /\ ~HasHttpScheme(req.repo_url)) =>
          (Len(res) = 1 /\ res[1].status = 400)

====
